---- MODULE Spec2Model ----
(***************************************************************************)
(* Model of helpers/notification/toast.py: the cross-process notification  *)
(* queue (init_notification_queue, show_message_notification), the toast   *)
(* display engine (display_notification with its fade_in / fade_out /      *)
(* cancel_tasks closures, run by Tk timer callbacks) and the modal prompt  *)
(* (prompt_notification).                                                  *)
(***************************************************************************)
EXTENDS Integers, Sequences, FiniteSets, TLC

(***************************************************************************)
(* Bounds of the model.                                                    *)
(***************************************************************************)
\* toast windows display_notification may create in one run
MaxToasts == 3
\* toast windows created in a run in which windows are also destroyed from
\* outside
MaxFadingToasts == 2
\* notify calls that reach a queue in one run, over all producers
MaxNotify == 3
\* windows destroyed from outside the module in one run
MaxDestroys == 1
\* prompt_notification calls in one run
MaxPrompts == 2
\* toast windows shown in a run that also prompts
MaxPromptToasts == 1

(***************************************************************************)
(* IEEE-754 binary64 values of the fade logic.  A value is sign and        *)
(* magnitude, the magnitude counted in units of 2^-56 and held in two      *)
(* limbs (hi * 2^28 + lo) so that it fits 32-bit integers.  Every value    *)
(* the fade logic computes lies in (-2, 2), where a double keeps 53 bits   *)
(* of significand: the exact sum is rounded to nearest, ties to even.      *)
(***************************************************************************)
Limb == 2^28

Float(neg, hi, lo) == [neg |-> neg, hi |-> hi, lo |-> lo]

\* the literals 0.0, 1.0 and 0.1 of the source as doubles
F_ZERO == Float(FALSE, 0, 0)
F_ONE == Float(FALSE, Limb, 0)
TenthHi == 26843545
TenthLo == 161061274
F_TENTH == Float(FALSE, TenthHi, TenthLo)

MagLess(a, b) == (a.hi < b.hi) \/ (a.hi = b.hi /\ a.lo < b.lo)

MagAdd(a, b) ==
    LET lo == a.lo + b.lo
    IN  [hi |-> a.hi + b.hi + (lo \div Limb), lo |-> lo % Limb]

\* a - b for magnitudes with b <= a
MagSub(a, b) ==
    LET borrow == IF a.lo < b.lo THEN 1 ELSE 0
    IN  [hi |-> a.hi - b.hi - borrow, lo |-> a.lo + borrow * Limb - b.lo]

\* the spacing of doubles at magnitude m, in units of 2^-56
Ulp(m) ==
    IF m.hi >= Limb THEN 16
    ELSE IF m.hi >= Limb \div 2 THEN 8
    ELSE IF m.hi >= Limb \div 4 THEN 4
    ELSE IF m.hi >= Limb \div 8 THEN 2
    ELSE 1

\* round to nearest multiple of the spacing, ties to even
RoundMag(m) ==
    LET g == Ulp(m)
        r == m.lo % g
        q == m.lo \div g
        up == (2 * r > g) \/ (2 * r = g /\ q % 2 = 1)
        lo == (IF up THEN q + 1 ELSE q) * g
    IN  [hi |-> m.hi + (lo \div Limb), lo |-> lo % Limb]

FNeg(a) == IF a.hi = 0 /\ a.lo = 0 THEN a ELSE Float(~a.neg, a.hi, a.lo)

FAdd(a, b) ==
    IF a.neg = b.neg
    THEN LET m == RoundMag(MagAdd(a, b)) IN Float(a.neg, m.hi, m.lo)
    ELSE IF MagLess(a, b)
         THEN LET m == RoundMag(MagSub(b, a)) IN Float(b.neg, m.hi, m.lo)
         ELSE IF MagLess(b, a)
              THEN LET m == RoundMag(MagSub(a, b)) IN Float(a.neg, m.hi, m.lo)
              ELSE F_ZERO

FSub(a, b) == FAdd(a, FNeg(b))

FLess(a, b) ==
    IF a.neg /\ ~b.neg THEN TRUE
    ELSE IF ~a.neg /\ b.neg THEN FALSE
    ELSE IF a.neg THEN MagLess(b, a)
    ELSE MagLess(a, b)


(***************************************************************************)
(* Program constants.                                                      *)
(***************************************************************************)
\* display_notification: width, height, margin, gap = 300, 100, 20, 10
width == 300
height == 100
margin == 20
gap == 10
\* the delay of one fade step, toast.after(20, ...)
FADE_MS == 20
\* the default of the duration parameter
DEFAULT_DURATION == 5000
\* the default of the icon parameter (the information glyph)
DEFAULT_ICON == "info"
\* Python's None
None == "None"

(***************************************************************************)
(* The processes, the queues they may share, and the arguments of calls.   *)
(***************************************************************************)
Producers == {"p1", "p2"}
Queues == {"q1", "q2"}
\* the queue the notification server's loop reads
ServerQueue == "q1"
Handles == Queues \cup {None}

\* An optional argument is <<>> when the caller omits it, <<v>> when given.
Omitted == <<>>
Given(v) == <<v>>
ArgOr(arg, default) == IF arg = Omitted THEN default ELSE arg[1]

\* the calls of notify and display_notification the model makes
Calls ==
    { [title |-> "Goal", message |-> "m1",
       duration |-> Omitted, icon |-> Omitted, bg_color |-> Omitted],
      [title |-> "Save", message |-> "m2",
       duration |-> Given(1000), icon |-> Given("warn"), bg_color |-> Given("red")],
      [title |-> "Goal", message |-> "m3",
       duration |-> Given(1000), icon |-> Omitted, bg_color |-> Given(None)] }

Screens == { [w |-> 1920, h |-> 1080], [w |-> 1280, h |-> 720] }

ToastIds == 1..MaxToasts

VARIABLES
    notification_queue, \* per process: the module global notification_queue
    queues,             \* per queue: the requests put and not yet taken
    notify_result,      \* per process: how its last notify call ended
    sent,               \* per process: the requests it has put (history)
    consumed,           \* the requests the server has taken, in order (history)
    screen,             \* winfo_screenwidth / winfo_screenheight of the server
    created,            \* number of toast windows created so far
    win,                \* per toast: "none", "exists" or "destroyed"
    alpha,              \* per toast: the window's -alpha attribute
    geom,               \* per toast: the x, y of its geometry
    duration,           \* per toast: the duration its closures captured
    tasks,              \* per toast: the closure's list of after() ids
    timers,             \* the callbacks Tk holds, scheduled and not yet run
    active_toasts,      \* the module global active_toasts
    full,               \* the toasts whose window has been at opacity 1.0 (history)
    destroys,           \* windows destroyed from outside so far
    prompt,             \* the prompt window and the closure's result
    prompt_ret,         \* <<>> until prompt_notification returns, then <<v>>
    prompts             \* prompt_notification calls so far

qvars == <<notification_queue, queues, notify_result, sent, consumed>>
tkvars == <<created, win, alpha, geom, duration, tasks, timers, active_toasts, full>>
pvars == <<prompt, prompt_ret, prompts>>
vars == <<qvars, tkvars, pvars, screen, destroys>>

\* win: the prompt window; result: result["value"]; by: what destroyed the
\* window (history); listed: while the window is open, active_toasts as it
\* was when the call was made (history)
NoPrompt == [win |-> "none", result |-> FALSE, by |-> "none", listed |-> <<>>]

Init ==
    /\ notification_queue = [p \in Producers |-> None]
    /\ queues = [q \in Queues |-> <<>>]
    /\ notify_result = [p \in Producers |-> "none"]
    /\ sent = [p \in Producers |-> 0]
    /\ consumed = <<>>
    /\ screen \in Screens
    /\ created = 0
    /\ win = [t \in ToastIds |-> "none"]
    /\ alpha = [t \in ToastIds |-> F_ZERO]
    /\ geom = [t \in ToastIds |-> [x |-> 0, y |-> 0]]
    /\ duration = [t \in ToastIds |-> 0]
    /\ tasks = [t \in ToastIds |-> <<>>]
    /\ timers = {}
    /\ active_toasts = <<>>
    /\ full = {}
    /\ destroys = 0
    /\ prompt = NoPrompt
    /\ prompt_ret = <<>>
    /\ prompts = 0

(***************************************************************************)
(* Queue bootstrap and the notify API.                                     *)
(***************************************************************************)
\* an initialisation that keeps a handle already set
init_notification_queue_once(p, q) ==
    /\ notification_queue' = [notification_queue EXCEPT ![p] =
                                 IF @ = None THEN q ELSE @]
    /\ UNCHANGED <<queues, notify_result, sent, consumed>>
    /\ UNCHANGED <<tkvars, pvars, screen, destroys>>

\* notification_queue = q
init_notification_queue(p, q) ==
    /\ notification_queue' = [notification_queue EXCEPT ![p] = q]
    /\ UNCHANGED <<queues, notify_result, sent, consumed>>
    /\ UNCHANGED <<tkvars, pvars, screen, destroys>>

\* the requests put so far, over all producers
RECURSIVE SumSent(_)
SumSent(ps) ==
    IF ps = {} THEN 0
    ELSE LET p == CHOOSE x \in ps : TRUE IN sent[p] + SumSent(ps \ {p})

SentTotal == SumSent(Producers)

\* the tuple show_message_notification puts
Request(title, message, dur, icon, bg_color) ==
    <<title, message, [duration |-> dur, icon |-> icon, bg_color |-> bg_color]>>

\* a put that places the item in front of the waiting ones
QueuePut_front(q, item) == <<item>> \o q

\* Queue.put: the item goes behind everything already in the queue
QueuePut(q, item) == Append(q, item)

\* show_message_notification without its guard, falling back to the server's
\* queue when the process has no handle
show_message_notification_unguarded(p, title, message, dur, icon, bg_color) ==
    LET q == IF notification_queue[p] = None THEN ServerQueue
             ELSE notification_queue[p]
    IN  /\ SentTotal < MaxNotify
        /\ queues' = [queues EXCEPT ![q] =
               Append(@, [req |-> <<title, message, [duration |-> dur, icon |-> icon,
                                                     bg_color |-> bg_color]>>,
                          src |-> p, n |-> sent[p] + 1])]
        /\ sent' = [sent EXCEPT ![p] = @ + 1]
        /\ notify_result' = [notify_result EXCEPT ![p] = "ok"]
        /\ UNCHANGED <<notification_queue, consumed>>
        /\ UNCHANGED <<created, win, alpha, geom, duration, tasks, timers,
                       active_toasts, full, prompt, prompt_ret, prompts,
                       screen, destroys>>

\* Each queued item is the request with the process and the count of the
\* put that made it (history, read by no operation).
show_message_notification(p, title, message, dur, icon, bg_color) ==
    IF notification_queue[p] = None
    THEN /\ notify_result' = [notify_result EXCEPT ![p] = "RuntimeError"]
         /\ UNCHANGED <<notification_queue, queues, sent, consumed>>
         /\ UNCHANGED <<tkvars, pvars, screen, destroys>>
    ELSE /\ SentTotal < MaxNotify
         /\ queues' = [queues EXCEPT ![notification_queue[p]] =
                QueuePut(@, [req |-> Request(title, message, dur, icon, bg_color),
                             src |-> p, n |-> sent[p] + 1])]
         /\ sent' = [sent EXCEPT ![p] = @ + 1]
         /\ notify_result' = [notify_result EXCEPT ![p] = "ok"]
         /\ UNCHANGED <<notification_queue, consumed>>
         /\ UNCHANGED <<tkvars, pvars, screen, destroys>>

\* notify with another default for duration
Notify_default3000(p, call) ==
    show_message_notification(p, call.title, call.message,
        ArgOr(call.duration, 3000),
        ArgOr(call.icon, DEFAULT_ICON),
        ArgOr(call.bg_color, None))

\* A call of notify(title, message, ...) with some optional arguments left out.
Notify(p, call) ==
    show_message_notification(p, call.title, call.message,
        ArgOr(call.duration, DEFAULT_DURATION),
        ArgOr(call.icon, DEFAULT_ICON),
        ArgOr(call.bg_color, None))

(***************************************************************************)
(* The display engine.  The operators below take and return the server's   *)
(* window state as a record S, so that one handler's calls compose: a      *)
(* handler runs to its end on the single thread of the event loop, and no  *)
(* other callback runs in between.                                         *)
(***************************************************************************)
S == [created |-> created, win |-> win, alpha |-> alpha, geom |-> geom,
      duration |-> duration, tasks |-> tasks, timers |-> timers,
      active_toasts |-> active_toasts]

Becomes(s) ==
    /\ created' = s.created
    /\ win' = s.win
    /\ alpha' = s.alpha
    /\ geom' = s.geom
    /\ duration' = s.duration
    /\ tasks' = s.tasks
    /\ timers' = s.timers
    /\ active_toasts' = s.active_toasts
    /\ full' = full \cup { t \in ToastIds : s.win[t] = "exists" /\ s.alpha[t] = F_ONE }

Range(f) == { f[i] : i \in DOMAIN f }

\* a removal that drops the newest entry, whatever t is
Remove_last(list, t) ==
    IF list = <<>> THEN <<>> ELSE SubSeq(list, 1, Len(list) - 1)

\* list.remove: the first occurrence of t is taken out
RECURSIVE Remove(_, _)
Remove(list, t) ==
    IF list = <<>> THEN <<>>
    ELSE IF Head(list) = t THEN Tail(list)
    ELSE <<Head(list)>> \o Remove(Tail(list), t)

\* tasks.append(toast.after(ms, lambda: fn(a))): Tk holds the callback under a
\* fresh id, and the closure's list remembers the id
Schedule(s, t, ms, fn, a) ==
    LET id == <<t, Len(s.tasks[t]) + 1>>
    IN  [s EXCEPT !.timers = @ \cup {[id |-> id, toast |-> t, ms |-> ms,
                                      fn |-> fn, alpha |-> a]},
                  !.tasks[t] = Append(@, id)]

\* cancel_tasks: after_cancel of every id of the list; the id of a callback
\* that has run already raises, and the error is swallowed
cancel_tasks(s, t) ==
    [s EXCEPT !.timers = { c \in @ : c.id \notin Range(s.tasks[t]) }]

\* a <Destroy> binding that also takes the toast out of the active list
destroy_and_remove(s, t) ==
    IF s.win[t] = "exists"
    THEN LET c == cancel_tasks([s EXCEPT !.win[t] = "destroyed"], t)
         IN  [c EXCEPT !.active_toasts = SelectSeq(@, LAMBDA u : u # t)]
    ELSE s

\* the window destroyed with no <Destroy> binding in place
destroy_unbound(s, t) ==
    IF s.win[t] = "exists" THEN [s EXCEPT !.win[t] = "destroyed"] ELSE s

\* Tk destroys the window; the <Destroy> binding of display_notification
\* runs cancel_tasks
destroy(s, t) ==
    IF s.win[t] = "exists"
    THEN cancel_tasks([s EXCEPT !.win[t] = "destroyed"], t)
    ELSE s

\* fade_in without the clamp to 1.0 at the end
fade_in_noclamp(s, t, a) ==
    IF s.win[t] # "exists" THEN s
    ELSE IF FLess(a, F_ONE)
         THEN Schedule([s EXCEPT !.alpha[t] = a], t, FADE_MS,
                       "fade_in", FAdd(a, F_TENTH))
         ELSE Schedule(s, t, s.duration[t], "fade_out", F_ONE)

\* a fade-in step that registers its next step twice
fade_in_double(s, t, a) ==
    IF s.win[t] # "exists" THEN s
    ELSE IF FLess(a, F_ONE)
         THEN Schedule(Schedule([s EXCEPT !.alpha[t] = a], t, FADE_MS,
                                "fade_in", FAdd(a, F_TENTH)),
                       t, FADE_MS, "fade_in", FAdd(a, F_TENTH))
         ELSE Schedule([s EXCEPT !.alpha[t] = F_ONE], t, s.duration[t],
                       "fade_out", F_ONE)

fade_in(s, t, a) ==
    IF s.win[t] # "exists" THEN s
    ELSE IF FLess(a, F_ONE)
         THEN Schedule([s EXCEPT !.alpha[t] = a], t, FADE_MS,
                       "fade_in", FAdd(a, F_TENTH))
         ELSE Schedule([s EXCEPT !.alpha[t] = F_ONE], t, s.duration[t],
                       "fade_out", F_ONE)

\* a fade-out whose last step takes the toast out of the list and leaves the
\* window standing
fade_out_nodestroy(s, t, a) ==
    IF s.win[t] # "exists" THEN s
    ELSE IF FLess(F_ZERO, a)
         THEN Schedule([s EXCEPT !.alpha[t] = a], t, FADE_MS,
                       "fade_out", FSub(a, F_TENTH))
         ELSE LET c == cancel_tasks(s, t)
              IN  IF t \in Range(c.active_toasts)
                  THEN [c EXCEPT !.active_toasts = Remove(@, t)]
                  ELSE c

\* fade_out without the winfo_exists test
fade_out_unguarded(s, t, a) ==
    IF FLess(F_ZERO, a)
    THEN Schedule([s EXCEPT !.alpha[t] = a], t, FADE_MS,
                  "fade_out", FSub(a, F_TENTH))
    ELSE LET c == cancel_tasks(s, t)
             r == IF t \in Range(c.active_toasts)
                  THEN [c EXCEPT !.active_toasts = Remove(@, t)]
                  ELSE c
         IN  [r EXCEPT !.win[t] = "destroyed"]

fade_out(s, t, a) ==
    IF s.win[t] # "exists" THEN s
    ELSE IF FLess(F_ZERO, a)
         THEN Schedule([s EXCEPT !.alpha[t] = a], t, FADE_MS,
                       "fade_out", FSub(a, F_TENTH))
         ELSE LET c == cancel_tasks(s, t)
                  r == IF t \in Range(c.active_toasts)
                       THEN [c EXCEPT !.active_toasts = Remove(@, t)]
                       ELSE c
              IN  destroy(r, t)

\* y = screen_h - height - margin - sum((height + gap) for _ in active_toasts)
RECURSIVE SumOver(_, _)
SumOver(list, v) == IF list = <<>> THEN 0 ELSE v + SumOver(Tail(list), v)

\* the stacking offset counted without the gap
ToastY_nogap(scr, list) == scr.h - height - margin - SumOver(list, height)

ToastY(scr, list) == scr.h - height - margin - SumOver(list, height + gap)
ToastX(scr) == scr.w - width - margin

\* display_notification without active_toasts.append(toast)
display_notification_noappend(s, scr, title, message, dur, icon, bg_color) ==
    LET t == s.created + 1
        w == [s EXCEPT !.created = t,
                       !.win[t] = "exists",
                       !.alpha[t] = F_ZERO,
                       !.duration[t] = dur,
                       !.geom[t] = [x |-> ToastX(scr), y |-> ToastY(scr, s.active_toasts)]]
    IN  fade_in(w, t, F_ZERO)

\* display_notification: the new window is toast number created + 1
display_notification(s, scr, title, message, dur, icon, bg_color) ==
    LET t == s.created + 1
        w == [s EXCEPT !.created = t,
                       !.win[t] = "exists",
                       !.alpha[t] = F_ZERO,
                       !.duration[t] = dur,
                       !.geom[t] = [x |-> ToastX(scr), y |-> ToastY(scr, s.active_toasts)],
                       !.active_toasts = Append(@, t)]
    IN  fade_in(w, t, F_ZERO)

\* The renderer-facing call, as the server's loop or any caller makes it.
DisplayCall(call) ==
    /\ created < MaxToasts
    /\ Becomes(display_notification(S, screen, call.title, call.message,
            ArgOr(call.duration, DEFAULT_DURATION),
            ArgOr(call.icon, DEFAULT_ICON),
            ArgOr(call.bg_color, None)))
    /\ UNCHANGED <<qvars, pvars, screen, destroys>>

\* The server's loop: take the oldest request of the queue and display it.
ServerLoop ==
    /\ queues[ServerQueue] # <<>>
    /\ created < MaxToasts
    /\ LET item == Head(queues[ServerQueue])
           opts == item.req[3]
       IN  /\ queues' = [queues EXCEPT ![ServerQueue] = Tail(@)]
           /\ consumed' = Append(consumed, item)
           /\ Becomes(display_notification(S, screen, item.req[1], item.req[2],
                    opts.duration, opts.icon, opts.bg_color))
    /\ UNCHANGED <<notification_queue, notify_result, sent>>
    /\ UNCHANGED <<pvars, screen, destroys>>

\* an event loop that runs no timer callback while a prompt is open
TimerFires_blocked(c) ==
    /\ c \in timers
    /\ prompt.win # "open"
    /\ LET s == [S EXCEPT !.timers = @ \ {c}]
       IN  Becomes(IF c.fn = "fade_in" THEN fade_in(s, c.toast, c.alpha)
                   ELSE fade_out(s, c.toast, c.alpha))
    /\ UNCHANGED <<qvars, pvars, screen, destroys>>

\* Tk's event loop runs one due callback.  Delays are not measured: any
\* scheduled callback may be the next to run.
TimerFires(c) ==
    /\ c \in timers
    /\ LET s == [S EXCEPT !.timers = @ \ {c}]
       IN  Becomes(IF c.fn = "fade_in" THEN fade_in(s, c.toast, c.alpha)
                   ELSE fade_out(s, c.toast, c.alpha))
    /\ UNCHANGED <<qvars, pvars, screen, destroys>>

\* A toast window is destroyed from outside the module (the application
\* shuts down, another part of the program destroys it).
ExternalDestroy(t) ==
    /\ win[t] = "exists"
    /\ destroys < MaxDestroys
    /\ destroys' = destroys + 1
    /\ Becomes(destroy(S, t))
    /\ UNCHANGED <<qvars, pvars, screen>>

(***************************************************************************)
(* The modal prompt.                                                       *)
(***************************************************************************)
\* prompt_notification up to wait_window: the window is created with
\* result = {"value": False}, and the caller waits
PromptCall ==
    /\ prompts < MaxPrompts
    /\ prompt.win # "open"
    /\ prompt.win = "destroyed" => prompt_ret # <<>>
    /\ prompt' = [win |-> "open", result |-> FALSE, by |-> "none",
                  listed |-> active_toasts]
    /\ prompt_ret' = <<>>
    /\ prompts' = prompts + 1
    /\ UNCHANGED <<qvars, tkvars, screen, destroys>>

\* a Yes command that destroys the window and leaves the result as it was
on_yes_forgets ==
    /\ prompt.win = "open"
    /\ prompt' = [prompt EXCEPT !.win = "destroyed", !.by = "yes",
                          !.listed = <<>>]
    /\ UNCHANGED <<prompt_ret, prompts, notification_queue, queues, notify_result,
                   sent, consumed, created, win, alpha, geom, duration, tasks,
                   timers, active_toasts, full, screen, destroys>>

\* the Yes button's command
on_yes ==
    /\ prompt.win = "open"
    /\ prompt' = [prompt EXCEPT !.win = "destroyed", !.result = TRUE, !.by = "yes",
                          !.listed = <<>>]
    /\ UNCHANGED <<prompt_ret, prompts, qvars, tkvars, screen, destroys>>

\* the No button's command
on_no ==
    /\ prompt.win = "open"
    /\ prompt' = [prompt EXCEPT !.win = "destroyed", !.by = "no",
                          !.listed = <<>>]
    /\ UNCHANGED <<prompt_ret, prompts, qvars, tkvars, screen, destroys>>

\* the prompt window is destroyed with neither button activated
PromptExternalDestroy ==
    /\ prompt.win = "open"
    /\ prompt' = [prompt EXCEPT !.win = "destroyed", !.by = "external",
                          !.listed = <<>>]
    /\ UNCHANGED <<prompt_ret, prompts, qvars, tkvars, screen, destroys>>

\* a wait that gives up while the window is still there
PromptReturn_early ==
    /\ prompt.win \in {"open", "destroyed"}
    /\ prompt_ret = <<>>
    /\ prompt_ret' = <<prompt.result>>
    /\ UNCHANGED <<prompt, prompts, qvars, tkvars, screen, destroys>>

\* wait_window returns once the window is gone; return result["value"]
PromptReturn ==
    /\ prompt.win = "destroyed"
    /\ prompt_ret = <<>>
    /\ prompt_ret' = <<prompt.result>>
    /\ UNCHANGED <<prompt, prompts, qvars, tkvars, screen, destroys>>

(***************************************************************************)
(* Specifications.                                                         *)
(***************************************************************************)
InitQueue == \E p \in Producers, q \in Queues : init_notification_queue(p, q)

NotifyCall == \E p \in Producers, call \in Calls : Notify(p, call)

Display == \E call \in Calls : DisplayCall(call)

Timer == \E c \in timers : TimerFires(c)

Destroyed == \E t \in ToastIds : ExternalDestroy(t)

\* the producers, the queue and the server's loop; no timer runs
NextQueue == InitQueue \/ NotifyCall \/ ServerLoop

SpecQueue == Init /\ [][NextQueue]_vars

\* the display engine, called directly, with windows destroyed from outside
NextToast ==
    \/ (created < MaxFadingToasts /\ Display)
    \/ Timer
    \/ Destroyed

SpecToast == Init /\ [][NextToast]_vars

\* the display engine, called directly, every toast left to its fade logic
NextStack == Display \/ Timer

SpecStack == Init /\ [][NextStack]_vars

\* the display engine with no destruction from outside, and an event loop
\* that keeps running: while callbacks are pending, one of them is
\* eventually run
NextLive == (created < MaxFadingToasts /\ Display) \/ Timer

SpecLive ==
    /\ Init
    /\ [][NextLive]_vars
    /\ WF_vars(Timer)

\* the prompt, with the display engine running beside it
NextPrompt ==
    \/ PromptCall
    \/ on_yes
    \/ on_no
    \/ PromptExternalDestroy
    \/ PromptReturn
    \/ (created < MaxPromptToasts /\ Display)
    \/ Timer
    \/ Destroyed

SpecPrompt == Init /\ [][NextPrompt]_vars

\* the whole module
Next ==
    \/ InitQueue
    \/ NotifyCall
    \/ ServerLoop
    \/ Display
    \/ Timer
    \/ Destroyed
    \/ PromptCall
    \/ on_yes
    \/ on_no
    \/ PromptExternalDestroy
    \/ PromptReturn

Spec == Init /\ [][Next]_vars

(***************************************************************************)
(* Properties.                                                             *)
(***************************************************************************)
\* the requests process p has put, wherever they are now
Holding(p) ==
    [place \in Queues \cup {"consumed"} |->
        LET list == IF place = "consumed" THEN consumed ELSE queues[place]
        IN  { i \in DOMAIN list : list[i].src = p }]

\* the state of a process that has no queue handle, and a notify call it makes
C1_Uninitialized ==
    \A p \in Producers :
        notification_queue[p] = None =>
            /\ notify_result[p] \in {"none", "RuntimeError"}
            /\ sent[p] = 0
            /\ \A place \in Queues \cup {"consumed"} : Holding(p)[place] = {}

C1_FailedCall ==
    \A p \in Producers :
        (notification_queue[p] = None /\ notify_result'[p] # notify_result[p]) =>
            /\ notify_result'[p] = "RuntimeError"
            /\ queues' = queues
            /\ sent' = sent

\* C1: a process whose queue handle is None (init_notification_queue not
\* called) has put nothing anywhere, and a notify call it makes ends with
\* the initialization error and leaves every queue as it was.
C1_NotifyBeforeInitFails == []C1_Uninitialized /\ [][C1_FailedCall]_vars

C1_Witness ==
    /\ notification_queue["p1"] = None
    /\ notify_result["p1"] = "RuntimeError"
    /\ queues[ServerQueue] # <<>>

\* C2: the server takes the requests of one producer in the order the
\* producer put them, whatever other producers put in between, and every
\* request put is in exactly one place, once: waiting in one queue, or taken.
C2_PerProducerFifoOnce ==
    /\ \A i, j \in DOMAIN consumed :
          (i < j /\ consumed[i].src = consumed[j].src) => consumed[i].n < consumed[j].n
    /\ \A p \in Producers : \A k \in 1..sent[p] :
          LET at == [place \in Queues \cup {"consumed"} |->
                        LET list == IF place = "consumed" THEN consumed
                                    ELSE queues[place]
                        IN  { i \in DOMAIN list : list[i].src = p /\ list[i].n = k }]
          IN  /\ \E place \in DOMAIN at : Cardinality(at[place]) = 1
              /\ \A a, b \in DOMAIN at : (at[a] # {} /\ at[b] # {}) => a = b

C2_Witness ==
    /\ Len(consumed) = 3
    /\ consumed[1].n = 1
    /\ consumed[3].n = 2
    /\ consumed[1].src = consumed[3].src
    /\ consumed[2].src # consumed[1].src
    /\ consumed[1].req # consumed[3].req

\* the request a call must put, and the step of a notify call that succeeds
C9_Expected(call) ==
    <<call.title, call.message,
      [duration |-> IF call.duration = <<>> THEN 5000 ELSE call.duration[1],
       icon |-> IF call.icon = <<>> THEN "info" ELSE call.icon[1],
       bg_color |-> IF call.bg_color = <<>> THEN "None" ELSE call.bg_color[1]]>>

C9_SuccessfulCall ==
    \A p \in Producers :
        (sent'[p] # sent[p] \/ (notify_result'[p] = "ok" /\ notify_result[p] # "ok")) =>
            LET h == notification_queue[p]
            IN  /\ h \in Queues
                /\ sent'[p] = sent[p] + 1
                /\ notify_result'[p] = "ok"
                /\ \E call \in Calls :
                      queues'[h] = Append(queues[h],
                          [req |-> C9_Expected(call), src |-> p, n |-> sent'[p]])
                /\ \A q \in Queues \ {h} : queues'[q] = queues[q]
                /\ notification_queue' = notification_queue
                /\ active_toasts' = active_toasts
                /\ UNCHANGED <<consumed, tkvars, pvars, screen, destroys>>

\* C9: a notify call that succeeds appends one request, made of the caller's
\* title and message and the options duration (5000 when omitted), icon and
\* bg_color (None when omitted), to the queue the process's handle names, and
\* changes nothing else: neither the handle, nor another queue, nor the
\* server's windows and active-toast list.
C9_NotifyAppendsOneRequest == [][C9_SuccessfulCall]_vars

C9_Witness ==
    /\ notify_result["p1"] = "ok"
    /\ notification_queue["p1"] = "q2"
    /\ Len(queues["q2"]) = 2
    /\ queues["q2"][2].src = "p1"
    /\ queues["q2"][2].req =
          <<"Goal", "m1", [duration |-> 5000, icon |-> "info", bg_color |-> "None"]>>

Existing == { t \in ToastIds : win[t] = "exists" }

\* the callback of toast t that the hold scheduled: fade_out at its default 1.0
IsHold(c) == c.fn = "fade_out" /\ c.alpha = F_ONE

\* C3 as stated: with no removal from the active list so far, the Nth toast
\* displayed sits N x 110 above the baseline y0 = screen_height - 100 - 20.
C3_Original ==
    Len(active_toasts) = created =>
        \A N \in 1..created : geom[N].y = (screen.h - 100 - 20) - N * 110

\* C3 amended: with no removal from the active list so far, the Nth toast
\* displayed sits (N - 1) x 110 above the baseline y0: the first toast is at
\* y0 itself.
C3_NthToastOffset ==
    Len(active_toasts) = created =>
        \A N \in 1..created : geom[N].y = (screen.h - 100 - 20) - (N - 1) * 110

C3_Witness ==
    /\ created = 2
    /\ Len(active_toasts) = 2
    /\ geom[1].y = screen.h - 120
    /\ geom[2].y = screen.h - 230
    /\ destroys = 1

\* the pending fade-out callbacks, and the step that removes a toast
C4_HoldAfterFadeIn ==
    \A c \in timers :
        c.fn = "fade_out" =>
            /\ c.toast \in full
            /\ IsHold(c) => (alpha[c.toast] = F_ONE /\ c.ms = duration[c.toast])

C4_RemovalAfterFadeOut ==
    \A t \in ToastIds :
        (\/ (t \in Range(active_toasts) /\ t \notin Range(active_toasts'))
         \/ (win[t] = "exists" /\ win'[t] = "destroyed" /\ destroys' = destroys)) =>
            /\ \E c \in timers \ timers' :
                  c.toast = t /\ c.fn = "fade_out" /\ ~FLess(F_ZERO, c.alpha)
            /\ FLess(alpha[t], F_TENTH)
            /\ t \in full
            /\ t \notin Range(active_toasts')
            /\ win'[t] = "destroyed"

\* C4: a hold callback is pending only while the window is at opacity 1.0,
\* which the fade-in set, and it is due after the toast's duration; a
\* fade-out callback exists only for a toast whose fade-in reached 1.0; and
\* the fade logic removes a toast from the active list and destroys its
\* window only in the fade-out step whose alpha is <= 0, after the opacity
\* has been stepped down below one fade step.
C4_FadeOrder == []C4_HoldAfterFadeIn /\ [][C4_RemovalAfterFadeOut]_vars

C4_Witness ==
    /\ destroys = 0
    /\ \E t \in ToastIds :
          win[t] = "destroyed" /\ t \in full /\ t \notin Range(active_toasts)
    /\ \E c \in timers : IsHold(c)

\* C5: a window that no longer exists has no callback left with Tk, so no
\* fade callback of a toast runs after its window was destroyed, at whatever
\* point of the fade-in, the hold or the fade-out it was destroyed.
C5_NoCallbackAfterDestroy ==
    \A c \in timers : win[c.toast] = "exists"

C5_Witness ==
    /\ destroys = 1
    /\ \E t \in ToastIds :
          /\ win[t] = "destroyed"
          /\ t \in Range(active_toasts)
          /\ t \in full
          /\ FLess(alpha[t], F_ONE)
          /\ tasks[t] # <<>>

\* C7 as stated: the active list is as long as the number of toast windows
\* that exist.
C7_LengthIsVisibleCount == Len(active_toasts) = Cardinality(Existing)

\* C8 as stated: with no window destroyed from outside, no two existing toast
\* windows have the same y.
C8_NoOverlap ==
    destroys = 0 =>
        \A t, u \in Existing : t # u => geom[t].y # geom[u].y

\* the step of a display_notification call, and the toasts not yet animated
C10_Placement ==
    created' # created =>
        LET t == created'
            k == Len(active_toasts)
        IN  /\ t = created + 1
            /\ win'[t] = "exists"
            /\ geom'[t].x = screen.w - 300 - 20
            /\ geom'[t].y = screen.h - 100 - 20 - k * 110
            /\ active_toasts' = Append(active_toasts, t)
            /\ alpha'[t] = F_ZERO
            /\ Len(tasks'[t]) = 1

C10_InListFromStart ==
    \A t \in Existing : Len(tasks[t]) = 1 => t \in Range(active_toasts)

\* C10: display_notification puts the new toast at x = screen_width - 320 and
\* y = screen_height - 120 - k x 110, k the length of the active list at the
\* call, appends it to the end of the list, and leaves it with its first fade
\* step done; a toast that has run no timer callback yet is in the list, so
\* the next call counts it.
C10_PlacedAndAppended == []C10_InListFromStart /\ [][C10_Placement]_vars

C10_Witness ==
    /\ created = 2
    /\ win[1] = "exists"
    /\ Len(tasks[1]) = 1
    /\ active_toasts = <<1, 2>>
    /\ geom[2].y = screen.h - 230

\* C6: prompt_notification returns true exactly when the Yes control was
\* what dismissed the window; the No control and any other destruction of
\* the window give false.
C6_TrueIffYes ==
    prompt_ret # <<>> => (prompt_ret[1] <=> prompt.by = "yes")

C6_Witness ==
    /\ prompts = 2
    /\ prompt_ret = <<TRUE>>
    /\ prompt.by = "yes"

\* the toasts of the active list whose window is gone
Dead == { t \in Range(active_toasts) : win[t] = "destroyed" }

\* every window that exists is in the list
C11_ExistingInList == \A t \in Existing : t \in Range(active_toasts)

C11_DeadStays ==
    /\ \A t \in ToastIds :
          (win[t] = "exists" /\ win'[t] = "destroyed" /\ destroys' # destroys) =>
              (active_toasts' = active_toasts /\ t \in Dead')
    /\ \A t \in Dead : t \in Dead'
    /\ created' # created =>
          geom'[created'].y =
              screen.h - 100 - 20
                  - 110 * (Cardinality(Dead) + Cardinality(Existing \cap Range(active_toasts)))

\* C11: a toast whose window is destroyed from outside stays in the active
\* list in that step and in every later one, and a toast created afterwards
\* is placed counting it: k is the number of listed toasts, dead or not.
C11_DestroyedKeepsSlot == []C11_ExistingInList /\ [][C11_DeadStays]_vars

C11_Witness ==
    /\ destroys = 1
    /\ win[1] = "destroyed"
    /\ Len(tasks[1]) = 1
    /\ win[2] = "exists"
    /\ Len(tasks[2]) > 12
    /\ active_toasts = <<1, 2>>
    /\ geom[2].y = screen.h - 230

\* alpha arguments that take the fade steps through each of their branches:
\* below 1.0 and not (fade_in), above 0 and not (fade_out)
StepAlphas == {F_ZERO, F_ONE, FAdd(F_ONE, F_TENTH), FSub(F_ZERO, F_TENTH)}

C12_DeadStepIsNoop ==
    \A t \in ToastIds :
        win[t] = "destroyed" =>
            \A a \in StepAlphas : fade_in(S, t, a) = S /\ fade_out(S, t, a) = S

C12_DeadUntouched ==
    \A t \in ToastIds :
        win[t] = "destroyed" =>
            /\ win'[t] = "destroyed" /\ alpha'[t] = alpha[t]
            /\ tasks'[t] = tasks[t] /\ geom'[t] = geom[t]
            /\ \A c \in timers' : c.toast # t

\* C12: run for a toast whose window no longer exists, fade_in and fade_out,
\* whichever branch their alpha would select, leave the server's state as it
\* is: no window's opacity, no callback held by Tk, no task list and not the
\* active list changes; and in the behaviours themselves no step changes
\* anything of a toast whose window is gone.
C12_StepOnDeadWindowIsNoop == []C12_DeadStepIsNoop /\ [][C12_DeadUntouched]_vars

C12_Witness ==
    /\ win[1] = "destroyed"
    /\ 1 \in Range(active_toasts)
    /\ 1 \notin full
    /\ FLess(F_ZERO, alpha[1])
    /\ win[2] = "exists"
    /\ \E c \in timers : c.toast = 2 /\ c.fn = "fade_out"

\* the callbacks of toast t that Tk holds
Pending(t) == { c \in timers : c.toast = t }

\* a toast that exists has exactly one pending callback, any other none
C13_OnePending ==
    \A t \in ToastIds :
        Cardinality(Pending(t)) = IF win[t] = "exists" THEN 1 ELSE 0

\* the active list changes only by the append of display_notification or by
\* the removal of the last fade_out step, which removes that step's toast
C13_ListWriters ==
    active_toasts' # active_toasts =>
        \/ /\ created' = created + 1
           /\ active_toasts' = Append(active_toasts, created')
        \/ \E c \in timers :
              /\ c.fn = "fade_out" /\ ~FLess(F_ZERO, c.alpha)
              /\ win[c.toast] = "exists" /\ win'[c.toast] = "destroyed"
              /\ active_toasts' = Remove(active_toasts, c.toast)
              /\ created' = created

\* C13: the steps of one toast are chained one callback at a time (never two
\* pending for the same toast), and the active list is written only by
\* display_notification (append) and by the final fade-out step (remove).
C13_SerialSteps == []C13_OnePending /\ [][C13_ListWriters]_vars

C13_Witness ==
    /\ created = 2 /\ destroys = 0
    /\ win[1] = "destroyed" /\ active_toasts = <<2>>
    /\ \E c \in Pending(2) : c.fn = "fade_out" /\ c.alpha # F_ONE

\* in every state, whatever handle the process holds, a call of
\* init_notification_queue(q) can be made and leaves q as the handle
C14_InitOverwrites ==
    \A p \in Producers, q \in Queues :
        ENABLED (init_notification_queue(p, q) /\ notification_queue'[p] = q)

\* a step that changes a handle sets it to a queue and changes nothing else
C14_InitStep ==
    \A p \in Producers :
        notification_queue'[p] # notification_queue[p] =>
            /\ notification_queue'[p] \in Queues
            /\ UNCHANGED <<queues, sent, notify_result, consumed>>

\* a successful notify puts one item on the queue of the handle, no other
C14_NotifyOnHandle ==
    \A p \in Producers :
        sent'[p] # sent[p] =>
            LET h == notification_queue[p]
            IN  /\ h \in Queues
                /\ notification_queue' = notification_queue
                /\ Len(queues'[h]) = Len(queues[h]) + 1
                /\ queues'[h][Len(queues'[h])].src = p
                /\ \A q \in Queues \ {h} : queues'[q] = queues[q]

\* C14: init_notification_queue has no guard against a second call: it
\* overwrites the handle with its argument every time, and a later notify
\* puts its request on the queue of the last call only.
C14_LastInitWins ==
    /\ []C14_InitOverwrites
    /\ [][C14_InitStep /\ C14_NotifyOnHandle]_vars

C14_Witness ==
    /\ notification_queue["p1"] = "q2"
    /\ \E i \in DOMAIN queues["q1"] :
          queues["q1"][i].src = "p1" /\ queues["q1"][i].n = 1
    /\ Len(queues["q2"]) = 1
    /\ queues["q2"][1].src = "p1" /\ queues["q2"][1].n = 2

\* while the prompt window is open the call has not returned and cannot
C15_BlockedWhileOpen ==
    prompt.win = "open" => (prompt_ret = <<>> /\ ~ENABLED PromptReturn)

\* the call returns only with the window destroyed, and the window goes only
\* by a button or a destruction from outside: no timer step touches it
C15_ReturnAfterDestroy ==
    /\ prompt_ret' # prompt_ret /\ prompt_ret' # <<>> =>
          (prompt.win = "destroyed" /\ prompt'.win = "destroyed")
    /\ prompt.win = "open" /\ prompt'.win # "open" =>
          /\ prompt'.win = "destroyed"
          /\ prompt'.by \in {"yes", "no", "external"}
          /\ timers' = timers

\* C15: prompt_notification does not return before its window is destroyed;
\* nothing but the buttons or a destruction from outside ends the wait: the
\* toasts' timers never do.
C15_PromptBlocksUntilDestroyed ==
    []C15_BlockedWhileOpen /\ [][C15_ReturnAfterDestroy]_vars

C15_Witness ==
    /\ prompts = 1
    /\ prompt.by = "no" /\ prompt_ret = <<FALSE>>
    /\ created = 1 /\ win[1] = "destroyed" /\ destroys = 0

\* toast t is over: window destroyed, out of the list, nothing pending
Completed(t) ==
    /\ win[t] = "destroyed"
    /\ t \notin Range(active_toasts)
    /\ \A c \in timers : c.toast # t

\* C16: with timers that fire and no destruction from outside, every toast
\* displayed eventually completes: its window is destroyed, it is out of the
\* active list and no callback of it is pending.
C16_EveryToastCompletes ==
    \A t \in 1..MaxFadingToasts : (win[t] = "exists") ~> Completed(t)

C16_Witness ==
    /\ created = 2 /\ destroys = 0
    /\ Completed(1) /\ Completed(2)
    /\ full = {1, 2} /\ active_toasts = <<>>

\* every opacity applied lies in [0.0, 1.0]
C17_InRange ==
    \A t \in ToastIds : ~FLess(alpha[t], F_ZERO) /\ ~FLess(F_ONE, alpha[t])

\* every change of a window's opacity is one step of 0.1: upwards until the
\* window has been at 1.0, downwards from then on
C17_StepOfTenth ==
    \A t \in ToastIds :
        (win[t] = "exists" /\ alpha'[t] # alpha[t]) =>
            alpha'[t] = IF t \in full THEN FSub(alpha[t], F_TENTH)
                        ELSE FAdd(alpha[t], F_TENTH)

\* C17: every opacity applied to a toast window lies in [0.0, 1.0]; the
\* fade-in starts at 0 and goes up in steps of 0.1 to exactly 1.0, the
\* fade-out starts at 1.0 and goes down in steps of 0.1, and the opacity is
\* never raised once the fade-out has started.
C17_OpacityInTenths == []C17_InRange /\ [][C17_StepOfTenth]_vars

\* while the prompt waits, every pending callback can run, and its run leaves
\* the prompt as it is; the last fade-out step destroys and removes its toast
C18_LoopRuns ==
    prompt.win = "open" =>
        \A c \in timers :
            ENABLED (/\ TimerFires(c)
                     /\ prompt' = prompt /\ prompt_ret' = prompt_ret
                     /\ (c.fn = "fade_out" /\ ~FLess(F_ZERO, c.alpha)) =>
                            /\ win'[c.toast] = "destroyed"
                            /\ c.toast \notin Range(active_toasts'))

\* a step of the toasts changes nothing of the prompt, its result included
C18_ToastStepKeepsPrompt ==
    (timers' # timers \/ win' # win \/ alpha' # alpha
        \/ active_toasts' # active_toasts) =>
            UNCHANGED <<prompt, prompt_ret, prompts>>

\* C18: while prompt_notification waits for its window the event loop keeps
\* running the toasts' callbacks; a toast can finish its fade-out and leave
\* the active list during the wait, and no toast step changes what the
\* prompt returns.
C18_ToastsRunDuringPrompt ==
    []C18_LoopRuns /\ [][C18_ToastStepKeepsPrompt]_vars

C18_Witness ==
    /\ prompt.win = "open" /\ prompt_ret = <<>>
    /\ prompt.listed = <<1>>
    /\ active_toasts = <<>> /\ win[1] = "destroyed" /\ destroys = 0

\* toasts are numbered in creation order: the list is strictly increasing,
\* so it has no toast twice and is in creation order
C19_CreationOrder ==
    \A i, j \in DOMAIN active_toasts :
        i < j => active_toasts[i] < active_toasts[j]

C19_RemovedOnce ==
    \* a toast that has left the list never comes back
    /\ \A t \in 1..created :
          t \notin Range(active_toasts) => t \notin Range(active_toasts')
    \* a step that shortens the list is the last fade-out step of one listed
    \* toast, and takes out that toast only
    /\ Len(active_toasts') < Len(active_toasts) =>
          \E t \in Range(active_toasts) :
              /\ win[t] = "exists" /\ win'[t] = "destroyed"
              /\ \E c \in timers :
                    c.toast = t /\ c.fn = "fade_out" /\ ~FLess(F_ZERO, c.alpha)
              /\ active_toasts' = SelectSeq(active_toasts, LAMBDA u : u # t)

====
